---- MODULE Spec2Model ----
(***************************************************************************)
(* A model of the server-side rendering core of aleph.js:                  *)
(*   - src/unnamed/part_001 : MemorySessionStorage and SessionImpl         *)
(*   - src/server/renderer.ts : the render service (fetch) and matchRoute  *)
(* Asynchronous functions are cut at their awaits: one action per          *)
(* synchronous run of code between two awaits.                             *)
(***************************************************************************)
EXTENDS Integers, Sequences, FiniteSets, TLC

VARIABLES
  now,        \* Date.now(), milliseconds
  ticks,      \* how many times the clock has advanced
  storage,    \* MemorySessionStorage.#store : sid -> record
  sess,       \* the SessionImpl objects
  lastSet,    \* per sid: the latest write by Session.update, while it stands
  ev,         \* the call made by the latest step, and what it returned
  lolHtmlReady, \* renderer.ts line 11: the module-level flag
  initDone,     \* how many initWasm calls have completed successfully
  opts,         \* RenderOptions: indexHtml, routes, isDev, ssrHandler
  traffic,      \* the requests clients send: their paths and headers
  rq            \* the fetch calls: where each one stands and its locals

svars == <<now, ticks, storage, sess, lastSet, ev>>

rvars == <<lolHtmlReady, initDone, opts, traffic, rq>>

vars == <<now, ticks, storage, sess, lastSet, ev, lolHtmlReady, initDone, opts,
          traffic, rq>>

----------------------------------------------------------------------------
(* Bounds of the model *)

\* the clock advances at most this many times
MaxTicks == 2

\* how far one clock step advances, in milliseconds
TickAmounts == {1000}

----------------------------------------------------------------------------
(* JavaScript values *)

Undefined == [type |-> "undefined", val |-> ""]
Null == [type |-> "null", val |-> ""]
ObjA == [type |-> "object", val |-> "a"]
ObjB == [type |-> "object", val |-> "b"]
FnFlip == [type |-> "function", val |-> "flip"]
Num5 == [type |-> "number", val |-> "5"]
StrX == [type |-> "string", val |-> "x"]
BoolT == [type |-> "boolean", val |-> "true"]

\* what callers pass to Session.update
UpdateArgs == {ObjA, ObjB, Null, FnFlip, Num5, StrX, BoolT, Undefined}

\* what callers store directly through the SessionStorage interface
Payloads == {ObjA, ObjB}

\* JavaScript's typeof: typeof null is "object"
TypeOf(v) == IF v.type = "null" THEN "object" ELSE v.type

\* JavaScript's !v
Falsy(v) ==
  \/ v.type \in {"undefined", "null"}
  \/ (v.type = "number" /\ v.val = "0")
  \/ (v.type = "string" /\ v.val = "")
  \/ (v.type = "boolean" /\ v.val = "false")

\* the update function callers pass: (prev) => next
ApplyFn(f, prev) == IF prev = ObjA THEN ObjB ELSE ObjA

----------------------------------------------------------------------------
(* MemorySessionStorage *)

Sids == {"s1", "s2"}

NoRecord == [present |-> FALSE, data |-> Undefined, expires |-> 0]

\* Map.get(sid) ?? [undefined, 0]
MemEntry(st, sid) ==
  IF st[sid].present THEN st[sid] ELSE NoRecord

\* the test of line 9 without its  expires > 0  guard
MemExpiredUnguarded(rec, t) == t > rec.expires

\* the test of line 9: expires > 0 && Date.now() > expires
MemExpired(rec, t) == rec.expires > 0 /\ t > rec.expires

\* MemorySessionStorage.get: the value it resolves to
MemGetResult(st, sid, t) ==
  IF MemExpired(MemEntry(st, sid), t) THEN Undefined ELSE MemEntry(st, sid).data

\* MemorySessionStorage.get: the map it leaves
MemGetStore(st, sid, t) ==
  IF MemExpired(MemEntry(st, sid), t) THEN [st EXCEPT ![sid] = NoRecord] ELSE st

\* MemorySessionStorage.set
MemSet(st, sid, data, expires) ==
  [st EXCEPT ![sid] = [present |-> TRUE, data |-> data, expires |-> expires]]

\* MemorySessionStorage.delete
MemDelete(st, sid) == [st EXCEPT ![sid] = NoRecord]

\* the latest step: which call it made, on which object or sid, with which
\* argument, and the value it produced
Event(op, who, arg, val) == [op |-> op, who |-> who, arg |-> arg, val |-> val]

NoEvent == Event("none", "", Undefined, Undefined)

NoWrite == [valid |-> FALSE, payload |-> Undefined, writer |-> "", done |-> FALSE]

\* a storage mutation that is not the write of an update ends the standing write
DropWrite(ls, sid, st1, st2) ==
  IF st1[sid] = st2[sid] THEN ls ELSE [ls EXCEPT ![sid] = NoWrite]

----------------------------------------------------------------------------
(* SessionImpl *)

SessionObjs == {"x", "y"}

\* the ids session objects are constructed with (the cookie's value): the
\* objects of one client, sharing its id
SessionIds == {"s1"}

\* options.maxAge: absent (<<>>) or a number of seconds
MaxAgeOptions == {<<>>, <<1>>}

\* the default of  this.#options.maxAge ?? 1800
DefaultMaxAge == 1800

MaxAgeOf(o) == IF o.maxAge = <<>> THEN DefaultMaxAge ELSE o.maxAge[1]

\* constructor(id, options): #store is left undefined
NewSession(id, ma) ==
  [id |-> id, maxAge |-> ma, cache |-> Undefined, pc |-> "idle",
   pending |-> Undefined]

\* the validation of update, lines 56-58
UpdateRejects(arg) == TypeOf(arg) # "object" /\ TypeOf(arg) # "function"

\* update persisting the previous payload instead of the next one
NextStoreStale(arg, cache) == cache

\* nextStore of update, lines 60-65
NextStore(arg, cache) ==
  IF TypeOf(arg) = "function" THEN ApplyFn(arg, cache) ELSE arg

\* an expiry that takes maxAge for milliseconds
UpdateExpiresUnscaled(o, t) == t + MaxAgeOf(o)

\* the expiry update persists, line 68
UpdateExpires(o, t) == t + 1000 * MaxAgeOf(o)

\* constructor: a new SessionImpl takes the place of an idle one
Construct(s) ==
  /\ sess[s].pc = "idle"
  /\ \E id \in SessionIds, ma \in MaxAgeOptions :
       sess' = [sess EXCEPT ![s] = NewSession(id, ma)]
  /\ ev' = Event("new", s, Undefined, Undefined)
  /\ UNCHANGED <<now, ticks, storage, lastSet>>
  /\ UNCHANGED rvars

\* init(), up to its await: storage.get runs
SessionInit(s) ==
  /\ sess[s].pc = "idle"
  /\ LET o == sess[s] IN
       /\ storage' = MemGetStore(storage, o.id, now)
       /\ lastSet' = DropWrite(lastSet, o.id, storage, storage')
       /\ sess' = [sess EXCEPT ![s] =
            [o EXCEPT !.pc = "init",
                      !.pending = MemGetResult(storage, o.id, now)]]
       /\ ev' = Event("init", s, storage[o.id].data, MemGetResult(storage, o.id, now))
  /\ UNCHANGED <<now, ticks>>
  /\ UNCHANGED rvars

\* init(), after its await: the cache is assigned
SessionInitResume(s) ==
  /\ sess[s].pc = "init"
  /\ sess' = [sess EXCEPT ![s] =
       [sess[s] EXCEPT !.pc = "idle", !.cache = sess[s].pending,
                       !.pending = Undefined]]
  /\ ev' = Event("init-done", s, Undefined, Undefined)
  /\ UNCHANGED <<now, ticks, storage, lastSet>>
  /\ UNCHANGED rvars

\* update(store), up to its await: validation, nextStore, storage.set
SessionUpdate(s) ==
  /\ sess[s].pc = "idle"
  /\ \E arg \in UpdateArgs :
       LET o == sess[s] IN
       IF UpdateRejects(arg)
       THEN /\ ev' = Event("update-rejected", s, arg, Undefined)
            /\ UNCHANGED <<storage, lastSet, sess>>
       ELSE /\ storage' = MemSet(storage, o.id, NextStore(arg, o.cache),
                                 UpdateExpires(o, now))
            /\ lastSet' = [lastSet EXCEPT ![o.id] =
                 [valid |-> TypeOf(arg) = "object", payload |-> arg,
                  writer |-> s, done |-> FALSE]]
            /\ sess' = [sess EXCEPT ![s] =
                 [o EXCEPT !.pc = "update",
                           !.pending = NextStore(arg, o.cache)]]
            /\ ev' = Event("update", s, arg, Undefined)
  /\ UNCHANGED <<now, ticks>>
  /\ UNCHANGED rvars

\* update(store), after its await: the cache is assigned
SessionUpdateResume(s) ==
  /\ sess[s].pc = "update"
  /\ sess' = [sess EXCEPT ![s] =
       [sess[s] EXCEPT !.pc = "idle", !.cache = sess[s].pending,
                       !.pending = Undefined]]
  /\ lastSet' = [lastSet EXCEPT ![sess[s].id] =
       IF @.writer = s THEN [@ EXCEPT !.done = TRUE] ELSE @]
  /\ ev' = Event("update-done", s, Undefined, Undefined)
  /\ UNCHANGED <<now, ticks, storage>>
  /\ UNCHANGED rvars

\* update(store) on a storage backend whose set fails, up to its await:
\* validation and nextStore as in SessionUpdate; set is called, writes
\* nothing and returns a promise that rejects
SessionUpdateFail(s) ==
  /\ sess[s].pc = "idle"
  /\ \E arg \in UpdateArgs :
       /\ ~UpdateRejects(arg)
       /\ sess' = [sess EXCEPT ![s].pc = "update-fail"]
       /\ ev' = Event("update-failing", s, arg, Undefined)
  /\ UNCHANGED <<now, ticks, storage, lastSet>>
  /\ UNCHANGED rvars

\* update(store), after the await of the failing set: the await raises, line
\* 69 is not reached and update rejects
SessionUpdateFailResume(s) ==
  /\ sess[s].pc = "update-fail"
  /\ sess' = [sess EXCEPT ![s].pc = "idle"]
  /\ ev' = Event("update-failed", s, Undefined, Undefined)
  /\ UNCHANGED <<now, ticks, storage, lastSet>>
  /\ UNCHANGED rvars

\* end(): with an empty cache it deletes the record and awaits; otherwise it
\* clears the cache at once
SessionEnd(s) ==
  /\ sess[s].pc = "idle"
  /\ LET o == sess[s] IN
       IF Falsy(o.cache)
       THEN /\ storage' = MemDelete(storage, o.id)
            /\ lastSet' = [lastSet EXCEPT ![o.id] = NoWrite]
            /\ sess' = [sess EXCEPT ![s] = [o EXCEPT !.pc = "end"]]
            /\ ev' = Event("end-delete", s, Undefined, Undefined)
       ELSE /\ sess' = [sess EXCEPT ![s] = [o EXCEPT !.cache = Undefined]]
            /\ ev' = Event("end", s, Undefined, Undefined)
            /\ UNCHANGED <<storage, lastSet>>
  /\ UNCHANGED <<now, ticks>>
  /\ UNCHANGED rvars

\* end(), after its await
SessionEndResume(s) ==
  /\ sess[s].pc = "end"
  /\ sess' = [sess EXCEPT ![s] =
       [sess[s] EXCEPT !.pc = "idle", !.cache = Undefined]]
  /\ ev' = Event("end-done", s, Undefined, Undefined)
  /\ UNCHANGED <<now, ticks, storage, lastSet>>
  /\ UNCHANGED rvars

\* the targets callers redirect to
Targets == {"/login", "/"}

\* an expiry that is always now + maxAge, whatever the cache holds
CookieExpiresAlways(o, t) == t + 1000 * MaxAgeOf(o)

\* line 85: the cookie's expiry, in milliseconds since the epoch
CookieExpires(o, t) ==
  IF o.cache = Undefined THEN 0 ELSE t + 1000 * MaxAgeOf(o)

\* cookieHeader(name, value, { expires }): the Set-Cookie text, kept as the
\* parts it is built from
CookieHeader(name, value, expires) ==
  [name |-> name, value |-> value, expires |-> expires]

\* lines 80-91: the Response of redirect; options.cookie is absent, so the
\* cookie's name is "session"
RedirectResponse(o, url, t) ==
  [type |-> "response", val |-> "", status |-> 302, body |-> "",
   location |-> url,
   setCookie |-> CookieHeader("session", o.id, CookieExpires(o, t))]

\* redirect(url): synchronous, it reads the cache and writes nothing
SessionRedirect(s) ==
  /\ \E url \in Targets :
       ev' = Event("redirect", s, [type |-> "string", val |-> url],
                   RedirectResponse(sess[s], url, now))
  /\ UNCHANGED <<now, ticks, storage, sess, lastSet>>
  /\ UNCHANGED rvars

\* a caller of the SessionStorage interface: get(sid)
StorageGet(sid) ==
  /\ storage' = MemGetStore(storage, sid, now)
  /\ lastSet' = DropWrite(lastSet, sid, storage, storage')
  /\ ev' = Event("get", sid, storage[sid].data, MemGetResult(storage, sid, now))
  /\ UNCHANGED <<now, ticks, sess>>
  /\ UNCHANGED rvars

\* a caller of the SessionStorage interface: set(sid, data, expires)
StorageSet(sid) ==
  /\ \E data \in Payloads, exp \in {0 - 1, 0, now + 1000} :
       storage' = MemSet(storage, sid, data, exp)
  /\ lastSet' = [lastSet EXCEPT ![sid] = NoWrite]
  /\ ev' = Event("set", sid, Undefined, Undefined)
  /\ UNCHANGED <<now, ticks, sess>>
  /\ UNCHANGED rvars

\* a caller of the SessionStorage interface: delete(sid)
StorageDelete(sid) ==
  /\ storage' = MemDelete(storage, sid)
  /\ lastSet' = [lastSet EXCEPT ![sid] = NoWrite]
  /\ ev' = Event("delete", sid, Undefined, Undefined)
  /\ UNCHANGED <<now, ticks, sess>>
  /\ UNCHANGED rvars

\* time passes
Tick ==
  /\ ticks < MaxTicks
  /\ \E d \in TickAmounts : now' = now + d
  /\ ticks' = ticks + 1
  /\ ev' = NoEvent
  /\ UNCHANGED <<storage, sess, lastSet>>
  /\ UNCHANGED rvars

----------------------------------------------------------------------------
(* renderer.ts: values *)

\* how many routes a route table holds at most
MaxRoutes == 2

\* JSON texts, as a Response body carries them, and the values they parse to
JTitle == [type |-> "object", val |-> "title:Hello"]
JZero == [type |-> "number", val |-> "0"]

JsonTexts == {"{\"title\":\"Hello\"}", "0", "<html>oops"}

\* Response.json(): whether the body parses
JsonParses(text) == text \in {"{\"title\":\"Hello\"}", "0"}

\* Response.json(): the value a body parses to
JsonParse(text) ==
  CASE text = "{\"title\":\"Hello\"}" -> JTitle
    [] text = "0" -> JZero
    [] OTHER -> Undefined

\* JSON.stringify of a value
JsonStringify(v) ==
  CASE v = JTitle -> "{\"title\":\"Hello\"}"
    [] v = JZero -> "0"
    [] v.type = "null" -> "null"
    [] OTHER -> ""

\* Error objects: the lines of err.message
Errors == {<<"boom">>, <<"load failed", "    at load (routes.ts:1:1)">>}

\* err.message.split("\n")[0]
FirstLine(msg) == IF msg = <<>> THEN "" ELSE msg[1]

\* Headers: each name with the values appended to it, in order
NoHeaders ==
  [contentType |-> <<>>, cacheControl |-> <<>>, lastModified |-> <<>>,
   location |-> <<>>]

\* a Response: who constructed it, status, body text or rewritten document
Response(by, status, body, doc, headers) ==
  [by |-> by, status |-> status, body |-> body, doc |-> doc, headers |-> headers]

NoResponse == Response("", 0, "", <<>>, NoHeaders)

\* the Responses a data loader's get or all returns
LoaderResponse(by, status, body, location) ==
  Response(by, status, body, <<>>, [NoHeaders EXCEPT !.location = location])

FetcherResponses(by) ==
  { LoaderResponse(by, 200, "{\"title\":\"Hello\"}", <<>>),
    LoaderResponse(by, 200, "0", <<>>),
    LoaderResponse(by, 200, "<html>oops", <<>>),
    LoaderResponse(by, 302, "", <<"/login">>),
    LoaderResponse(by, 404, "not found", <<>>) }

\* the Responses all returns in the model
AllResponses ==
  { LoaderResponse("all", 302, "", <<"/login">>),
    LoaderResponse("all", 200, "{\"title\":\"Hello\"}", <<>>) }

\* what get returns when it returns no Response
FetcherValues == {JTitle, Undefined}

\* Cache-Control values: `public, max-age=${n}` and
\* "public, max-age=0, must-revalidate"
MaxAge(n) == [maxAge |-> n, mustRevalidate |-> FALSE]
MustRevalidate == [maxAge |-> "0", mustRevalidate |-> TRUE]

----------------------------------------------------------------------------
(* Routes *)

Lit(name) == [kind |-> "lit", name |-> name]
Param(name) == [kind |-> "param", name |-> name]

\* the data export of a route module: whether it is a plain object, whether
\* get and all are functions, and cacheTtl
DataConfig(plain, get, all, ttl) ==
  [plain |-> plain, get |-> get, all |-> all, cacheTtl |-> ttl]

Route(pattern, data, filename) ==
  [pattern |-> pattern, data |-> data, filename |-> filename]

RoutePosts ==
  Route(<<Lit("posts"), Param("id")>>,
        DataConfig(TRUE, TRUE, FALSE, Undefined), "./routes/posts/[id].tsx")
RouteAbout ==
  Route(<<Lit("about")>>,
        DataConfig(FALSE, FALSE, FALSE, Undefined), "./routes/about.tsx")
RouteAdmin ==
  Route(<<Lit("admin")>>,
        DataConfig(TRUE, TRUE, TRUE, [type |-> "number", val |-> "60"]),
        "./routes/admin.tsx")
RouteFeed ==
  Route(<<Lit("feed")>>,
        DataConfig(TRUE, FALSE, TRUE, Undefined), "./routes/feed.tsx")

RouteCatalogue == {RoutePosts, RouteAbout, RouteAdmin, RouteFeed}

RECURSIVE SeqsUpTo(_, _)
SeqsUpTo(S, n) ==
  IF n = 0 THEN {<<>>}
  ELSE LET shorter == SeqsUpTo(S, n - 1) IN
       shorter \cup {Append(q, x) : q \in shorter, x \in S}

RouteTables == SeqsUpTo(RouteCatalogue, MaxRoutes)

\* request pathnames, as their segments; an empty segment is a redundant or
\* trailing separator
Paths ==
  { <<"posts", "42">>, <<"posts", "42", "">>, <<"about">>, <<"admin">>,
    <<"feed">>, <<"missing">> }

\* util.cleanPath: collapse redundant separators, strip the trailing slash
CleanPath(path) == SelectSeq(path, LAMBDA seg : seg # "")

\* URLPattern.exec({ pathname }): whether the pattern matches
PatternMatches(pattern, pathname) ==
  /\ Len(pattern) = Len(pathname)
  /\ \A i \in 1..Len(pattern) :
       pattern[i].kind = "lit" => pattern[i].name = pathname[i]

\* URLPattern.exec({ pathname }).pathname.groups, as <<name, value>> pairs
PatternGroups(pattern, pathname) ==
  LET idx == SelectSeq([i \in 1..Len(pattern) |-> i],
                       LAMBDA i : pattern[i].kind = "param")
  IN [k \in 1..Len(idx) |-> <<pattern[idx[k]].name, pathname[idx[k]]>>]

\* new URL(req.url)
Url(path) == [path |-> path, params |-> <<>>]

\* util.appendUrlParams: the groups become query parameters
AppendUrlParams(url, groups) == [url EXCEPT !.params = @ \o groups]

\* a loop that takes the first route without testing its pattern
MatchedIndexUntested(routes, pathname) == IF Len(routes) > 0 THEN 1 ELSE 0

\* the loop of matchRoute: it returns at the end of its first iteration, so
\* only routes[1] is ever tested. 0: no route is matched.
MatchedIndex(routes, pathname) ==
  IF Len(routes) > 0 /\ PatternMatches(routes[1].pattern, pathname) THEN 1 ELSE 0

\* the render context: { url } with moduleDefaultExport, dataExpires, filename
\* and data as they are assigned
Context(url) ==
  [url |-> url, hasModule |-> FALSE, filename |-> "", data |-> Undefined,
   dataExpires |-> Undefined]

\* lines 188-194
AssignModule(ctx, route, pathname) ==
  [ctx EXCEPT
     !.url = AppendUrlParams(ctx.url, PatternGroups(route.pattern, pathname)),
     !.hasModule = TRUE,
     !.dataExpires = IF route.data.plain THEN route.data.cacheTtl ELSE Undefined,
     !.filename = route.filename]

\* lines 195-196: dataConfig.get is a function
HasFetcher(route) == route.data.plain /\ route.data.get

\* lines 198-199: dataConfig.all is a function
HasAllFetcher(route) == route.data.plain /\ route.data.all

----------------------------------------------------------------------------
(* The base document and its rewriting *)

\* an href or src: "./x.css" is [prefix |-> "./", rest |-> "x", ext |-> "css"]
Ref(prefix, rest, ext) == [prefix |-> prefix, rest |-> rest, ext |-> ext]
NoRef == Ref("", "", "")

\* a token of the document: an element of the base document (role "") or
\* content a handler inserted (role names which)
Token(tag, role, type, src, text, attr, items) ==
  [tag |-> tag, role |-> role, type |-> type, src |-> src, text |-> text,
   attr |-> attr, items |-> items]

Open(tag) == Token(tag, "", "", NoRef, "", "", <<>>)
Close(tag) == Token("/", "", "", NoRef, tag, "", <<>>)
Link(href) == Token("link", "", "", href, "", "", <<>>)
Script(type, src) == Token("script", "", type, src, "", "", <<>>)

\* content inserted with { html: true }
Html(markup) == Token("#html", "", "", NoRef, markup, "", <<>>)

DocFull ==
  << Open("head"), Link(Ref("./", "style", "css")), Open("ssr-head"),
     Script("module", Ref("./", "main", "js")), Close("head"),
     Open("body"), Open("ssr-body"), Script("module", Ref("/", "extra", "js")),
     Script("", Ref("/", "legacy", "js")), Close("body") >>

DocBare == << Open("body"), Open("ssr-body"), Close("body") >>

Documents == {DocFull, DocBare}

\* href.startsWith("./") ? href.slice(1) : href  (also for src)
DropDot(ref) == IF ref.prefix = "./" THEN [ref EXCEPT !.prefix = "/"] ELSE ref

\* lines 52-56: the JSON data script
DataScript(ctx) ==
  Token("script", "aleph-ssr-data", "application/json", NoRef,
        JsonStringify(ctx.data),
        IF Falsy(ctx.dataExpires) THEN "" ELSE "data-expires=\"route.dataExpires\"",
        <<>>)

\* lines 63-66: the module bootstrap script
BootstrapScript(ctx) ==
  Token("script", "bootstrap", "module", NoRef, ctx.filename, "", <<>>)

\* lines 48-73: what the ssr-head handler leaves in place of the marker
SsrHeadTokens(ctx, headCollection) ==
  [i \in 1..Len(headCollection) |-> Html(headCollection[i])]
  \o (IF Falsy(ctx.data) THEN <<>> ELSE <<DataScript(ctx)>>)
  \o (IF ctx.filename = "" THEN <<>> ELSE <<BootstrapScript(ctx)>>)

\* lines 102-120: the link handler
LinkTokens(el, isDev) ==
  IF el.src = NoRef THEN <<el>>
  ELSE LET href == DropDot(el.src) IN
       <<[el EXCEPT !.src = href]>>
       \o (IF href.ext = "css" /\ href.prefix = "/" /\ isDev
           THEN <<Token("script", "hmr-accept", "module", href, "", "", <<>>)>>
           ELSE <<>>)

\* a script handler that does not look at its flag
ScriptTokensEveryModule(el, nomoduleInserted) ==
  <<[el EXCEPT !.src = DropDot(el.src)]>>
  \o (IF el.type = "module"
      THEN <<Token("script", "nomodule", "", Ref("", "lib/nomodule", "js"), "", "nomodule", <<>>)>>
      ELSE <<>>)

\* lines 121-134: the script handler, given its nomoduleInserted flag
ScriptTokens(el, nomoduleInserted) ==
  <<[el EXCEPT !.src = DropDot(el.src)]>>
  \o (IF el.type = "module" /\ ~nomoduleInserted
      THEN <<Token("script", "nomodule", "", Ref("", "lib/nomodule", "js"), "", "nomodule", <<>>)>>
      ELSE <<>>)

\* lines 142-153: what the head/body handler appends to its element
CommonTokens(routes, isDev) ==
  (IF Len(routes) > 0
   THEN <<Token("script", "aleph-routes", "application/json", NoRef, "", "",
                [i \in 1..Len(routes) |->
                   [filename |-> routes[i].filename, pattern |-> routes[i].pattern]])>>
   ELSE <<>>)
  \o (IF isDev
      THEN <<Token("script", "hmr-decline", "module", NoRef, "./index.html", "", <<>>)>>
      ELSE <<>>)

\* the handler flags of one render: scriptHandler.nomoduleInserted,
\* commonHandler.handled, and the element commonHandler appended to
NewFlags == [nomodule |-> FALSE, handled |-> FALSE, appendTo |-> ""]

\* a head/body handler without its guard: it appends to every element
CommonHandledEveryElement(fl, el) ==
  [fl EXCEPT !.handled = TRUE, !.appendTo = el.tag]

\* lines 138-141: the head/body handler acts on the first element only
CommonHandled(fl, el) ==
  IF fl.handled THEN fl
  ELSE [fl EXCEPT !.handled = TRUE, !.appendTo = el.tag]

\* rewriter.write / rewriter.end: the handlers run in document order. The
\* ssr-head and ssr-body handlers are registered only when withSSR.
RECURSIVE RewriteFrom(_, _, _, _)
RewriteFrom(doc, i, fl, c) ==
  IF i > Len(doc) THEN <<>>
  ELSE LET el == doc[i] IN
    CASE el.tag = "ssr-head" /\ c.withSSR ->
           SsrHeadTokens(c.ctx, c.head) \o RewriteFrom(doc, i + 1, fl, c)
      [] el.tag = "ssr-body" /\ c.withSSR ->
           <<Html(c.markup)>> \o RewriteFrom(doc, i + 1, fl, c)
      [] el.tag = "link" ->
           LinkTokens(el, c.isDev) \o RewriteFrom(doc, i + 1, fl, c)
      [] el.tag = "script" ->
           ScriptTokens(el, fl.nomodule)
           \o RewriteFrom(doc, i + 1,
                          [fl EXCEPT !.nomodule = @ \/ el.type = "module"], c)
      [] el.tag \in {"head", "body"} ->
           <<el>> \o RewriteFrom(doc, i + 1, CommonHandled(fl, el), c)
      [] el.tag = "/" /\ el.text = fl.appendTo ->
           CommonTokens(c.routes, c.isDev) \o <<el>>
           \o RewriteFrom(doc, i + 1, [fl EXCEPT !.appendTo = ""], c)
      [] OTHER -> <<el>> \o RewriteFrom(doc, i + 1, fl, c)

\* lines 101-164: the rewritten document
Rewrite(o, q) ==
  RewriteFrom(o.indexHtml, 1, NewFlags,
              [withSSR |-> q.withSSR, ctx |-> q.ctx, head |-> q.head,
               markup |-> q.markup, routes |-> o.routes, isDev |-> o.isDev])

\* Date.prototype.toUTCString has whole seconds: the text is modelled by the
\* number of seconds
ToUTCString(ms) == ms \div 1000

\* the modification times Deno.lstat reports, in milliseconds
Mtimes == {5000, 5400, 7000}

\* the If-Modified-Since header of a request: absent, or a date text
NoIms == [present |-> FALSE, utc |-> 0]
ImsHeaders == {NoIms, [present |-> TRUE, utc |-> 5], [present |-> TRUE, utc |-> 7]}

\* a comparison that takes any header date not before the file's as a match
ImsNotBefore(ims, mtimeUTC) == ims.present /\ ims.utc >= mtimeUTC

\* line 93: req.headers.get("If-Modified-Since") === mtimeUTC
ImsMatches(ims, mtimeUTC) == ims.present /\ ims.utc = mtimeUTC

----------------------------------------------------------------------------
(* RenderService.fetch and matchRoute *)

Reqs == {"r1", "r2"}

\* what a fetch call ended with: a Response it returned, or an exception it
\* let through (its promise rejects)
NoOutcome == [kind |-> "none", resp |-> NoResponse, err |-> <<>>]
Returned(resp) == [kind |-> "response", resp |-> resp, err |-> <<>>]
Thrown(err) == [kind |-> "throw", resp |-> NoResponse, err |-> err]

\* what Deno.lstat reported: stat.mtime, which may be null
NoStat == [called |-> FALSE, has |-> FALSE, ms |-> 0]
StatOf(has, ms) == [called |-> TRUE, has |-> has, ms |-> ms]

\* the locals of one fetch call. The fields from loads on record what the
\* call has done: the routes whose load() ran, the data-loader functions
\* invoked, the Response and the plain value a data loader returned, whether
\* the SSR callback ran and the document was rewritten, what lstat reported,
\* and the step that raised, with its error.
Fresh(path, ims) ==
  [pc |-> "start", path |-> path, ims |-> ims, ctx |-> Context(Url(path)),
   withSSR |-> FALSE, markup |-> "", head |-> <<>>, headers |-> NoHeaders,
   loads |-> {}, calls |-> <<>>, lres |-> NoResponse,
   gdirect |-> FALSE, gval |-> Undefined, ssrCalled |-> FALSE,
   rewritten |-> FALSE, mt |-> NoStat, threwAt |-> "", raised |-> <<>>,
   out |-> NoOutcome]

IdleRequest == [Fresh(<<>>, NoIms) EXCEPT !.pc = "idle"]
OffRequest == [Fresh(<<>>, NoIms) EXCEPT !.pc = "off"]

\* every request of the model
AnyTraffic == [paths |-> Paths, headers |-> ImsHeaders]

QuietOptions ==
  [indexHtml |-> DocBare, routes |-> <<>>, isDev |-> FALSE, ssr |-> FALSE]

\* what the SSR callback produces
Markups == {"<article>Hello</article>"}
HeadCollections == {<<>>, <<"<title>Hello</title>">>}

\* lines 165-172: the catch block
ErrorResponse(isDev, err) ==
  Response("fetch", 500,
           IF isDev THEN FirstLine(err) ELSE "Internal Server Error",
           <<>>, NoHeaders)

\* an exception raised inside the try block at step `at`
Caught(q, at, err) ==
  [q EXCEPT !.pc = "done", !.threwAt = at, !.raised = err,
            !.out = Returned(ErrorResponse(opts.isDev, err))]

\* an exception raised before the try block at step `at`
Uncaught(q, at, err) ==
  [q EXCEPT !.pc = "done", !.threwAt = at, !.raised = err, !.out = Thrown(err)]

\* fetch returns a Response
Finish(q, resp) == [q EXCEPT !.pc = "done", !.out = Returned(resp)]

\* matchRoute returns a Response: its promise is fulfilled, and fetch, which
\* awaits it at line 39, goes on in a later step
MatchReturns(q, res) == [q EXCEPT !.lres = res, !.pc = "settled"]

\* matchRoute raises at step `at`: its promise is rejected, and fetch goes on
\* in its catch block in a later step
MatchRaises(q, at, err) ==
  [q EXCEPT !.threwAt = at, !.raised = err, !.pc = "settled"]

\* the route matchRoute works on
MatchedRoute(q) == opts.routes[MatchedIndex(opts.routes, CleanPath(q.path))]

\* a request arrives: fetch is called
Receive(r) ==
  /\ rq[r].pc \in {"idle", "done"}
  /\ \E path \in traffic.paths, ims \in traffic.headers :
       rq' = [rq EXCEPT ![r] = Fresh(path, ims)]
  /\ UNCHANGED <<lolHtmlReady, initDone, opts, traffic>>
  /\ UNCHANGED svars

\* lines 22-23: the flag is tested and, when unset, initWasm is started
FetchBegin(r) ==
  /\ rq[r].pc = "start"
  /\ rq' = [rq EXCEPT ![r].pc = IF lolHtmlReady THEN "setup" ELSE "initWait"]
  /\ UNCHANGED <<lolHtmlReady, initDone, opts, traffic>>
  /\ UNCHANGED svars

\* lines 23-24: initWasm settles; on success the flag is set
InitSettle(r) ==
  /\ rq[r].pc = "initWait"
  /\ \/ /\ lolHtmlReady' = TRUE
        /\ initDone' = initDone + 1
        /\ rq' = [rq EXCEPT ![r].pc = "setup"]
     \/ /\ \E e \in Errors : rq' = [rq EXCEPT ![r] = Uncaught(@, "init", e)]
        /\ UNCHANGED <<lolHtmlReady, initDone>>
  /\ UNCHANGED <<opts, traffic>>
  /\ UNCHANGED svars

\* lines 27-32: headers and the HTMLRewriter are constructed
Setup(r) ==
  /\ rq[r].pc = "setup"
  /\ \/ rq' = [rq EXCEPT ![r].pc = "match",
                         ![r].headers.contentType = <<"text/html; charset=utf-8">>]
     \/ \E e \in Errors : rq' = [rq EXCEPT ![r] = Uncaught(@, "rewriter", e)]
  /\ UNCHANGED <<lolHtmlReady, initDone, opts, traffic>>
  /\ UNCHANGED svars

\* lines 35-39 and 180-187: without an ssrHandler the static path follows;
\* with one, matchRoute tests the first route and starts its loader
MatchBegin(r) ==
  /\ rq[r].pc = "match"
  /\ LET q == rq[r] IN
       IF ~opts.ssr THEN rq' = [rq EXCEPT ![r].pc = "stat"]
       ELSE IF MatchedIndex(opts.routes, CleanPath(q.path)) = 0
       THEN rq' = [rq EXCEPT ![r].pc = "ssr"]
       ELSE rq' = [rq EXCEPT ![r].pc = "load",
                             ![r].loads = @ \cup {MatchedIndex(opts.routes, CleanPath(q.path))}]
  /\ UNCHANGED <<lolHtmlReady, initDone, opts, traffic>>
  /\ UNCHANGED svars

\* lines 187-200 and 208: load() settles; the context is filled in and the
\* first data-loader function, if any, is invoked
LoadSettle(r) ==
  /\ rq[r].pc = "load"
  /\ LET q == rq[r]
         route == MatchedRoute(q)
         ctx == AssignModule(q.ctx, route, CleanPath(q.path))
     IN \/ rq' = [rq EXCEPT ![r] =
                    IF ~HasFetcher(route)
                    THEN [q EXCEPT !.ctx = ctx, !.pc = "ssr"]
                    ELSE IF HasAllFetcher(route)
                    THEN [q EXCEPT !.ctx = ctx, !.pc = "all", !.calls = Append(@, "all")]
                    ELSE [q EXCEPT !.ctx = ctx, !.pc = "get", !.calls = Append(@, "get")]]
        \/ \E e \in Errors : rq' = [rq EXCEPT ![r] = MatchRaises(q, "load", e)]
  /\ UNCHANGED <<lolHtmlReady, initDone, opts, traffic>>
  /\ UNCHANGED svars

\* an all whose Response does not end matchRoute: get is invoked all the same
AllSettleThenGet(r) ==
  /\ rq[r].pc = "all"
  /\ LET q == rq[r] IN
       \/ \E res \in AllResponses :
            rq' = [rq EXCEPT ![r].lres = res, ![r].pc = "get",
                             ![r].calls = Append(@, "get")]
       \/ rq' = [rq EXCEPT ![r].pc = "get", ![r].calls = Append(@, "get")]
       \/ \E e \in Errors : rq' = [rq EXCEPT ![r] = MatchRaises(q, "all", e)]
  /\ UNCHANGED <<lolHtmlReady, initDone, opts, traffic>>
  /\ UNCHANGED svars

\* lines 200-208: all settles; a Response is returned to fetch, otherwise get
\* is invoked
AllSettle(r) ==
  /\ rq[r].pc = "all"
  /\ LET q == rq[r] IN
       \/ \E res \in AllResponses :
            rq' = [rq EXCEPT ![r] = MatchReturns(q, res)]
       \/ rq' = [rq EXCEPT ![r].pc = "get", ![r].calls = Append(@, "get")]
       \/ \E e \in Errors : rq' = [rq EXCEPT ![r] = MatchRaises(q, "all", e)]
  /\ UNCHANGED <<lolHtmlReady, initDone, opts, traffic>>
  /\ UNCHANGED svars

\* get responses that are passed on only when they are redirects
NotOkOnlyRedirect(res) == res.status \in 300..399

\* line 213: res.status !== 200
NotOk(res) == res.status # 200

\* lines 208-216: get settles
GetSettle(r) ==
  /\ rq[r].pc = "get"
  /\ LET q == rq[r] IN
       \/ \E res \in FetcherResponses("get") :
            rq' = [rq EXCEPT ![r] =
                     IF NotOk(res)
                     THEN MatchReturns(q, res)
                     ELSE [q EXCEPT !.lres = res, !.pc = "json"]]
       \/ \E v \in FetcherValues :
            rq' = [rq EXCEPT ![r].pc = "ssr", ![r].gdirect = TRUE, ![r].gval = v]
       \/ \E e \in Errors : rq' = [rq EXCEPT ![r] = MatchRaises(q, "get", e)]
  /\ UNCHANGED <<lolHtmlReady, initDone, opts, traffic>>
  /\ UNCHANGED svars

\* line 216: res.json() settles
JsonSettle(r) ==
  /\ rq[r].pc = "json"
  /\ LET q == rq[r] IN
       IF JsonParses(q.lres.body)
       THEN rq' = [rq EXCEPT ![r].pc = "ssr",
                             ![r].ctx.data = JsonParse(q.lres.body)]
       ELSE rq' = [rq EXCEPT ![r] =
                     MatchRaises(q, "json", <<"Unexpected token < in JSON">>)]
  /\ UNCHANGED <<lolHtmlReady, initDone, opts, traffic>>
  /\ UNCHANGED svars

\* lines 39-42 and 165-172: the await of matchRoute settles with a Response,
\* which fetch returns, or with an exception, which the catch block turns
\* into the 500 response
MatchSettle(r) ==
  /\ rq[r].pc = "settled"
  /\ LET q == rq[r] IN
       rq' = [rq EXCEPT ![r] =
                IF q.threwAt # "" THEN Caught(q, q.threwAt, q.raised)
                ELSE Finish(q, q.lres)]
  /\ UNCHANGED <<lolHtmlReady, initDone, opts, traffic>>
  /\ UNCHANGED svars

\* an SSR path that never lets a response be cached
SsrCacheControlNoTtl(ctx) == MustRevalidate

\* lines 80-84: the Cache-Control value of the SSR path
SsrCacheControl(ctx) ==
  IF ctx.dataExpires.type = "number"
  THEN MaxAge(ctx.dataExpires.val)
  ELSE MustRevalidate

\* lines 45-86: the SSR callback runs; with markup the marker handlers are
\* registered and Cache-Control is appended
Ssr(r) ==
  /\ rq[r].pc = "ssr"
  /\ LET q == rq[r] IN
       \/ \E m \in Markups, hc \in HeadCollections :
            rq' = [rq EXCEPT ![r] =
                     [q EXCEPT !.ssrCalled = TRUE, !.withSSR = TRUE,
                               !.markup = m, !.head = hc,
                               !.headers.cacheControl =
                                  Append(@, SsrCacheControl(q.ctx)),
                               !.pc = "rewrite"]]
       \/ rq' = [rq EXCEPT ![r].ssrCalled = TRUE, ![r].pc = "stat"]
       \/ \E e \in Errors :
            rq' = [rq EXCEPT ![r] = Caught([q EXCEPT !.ssrCalled = TRUE], "ssr", e)]
  /\ UNCHANGED <<lolHtmlReady, initDone, opts, traffic>>
  /\ UNCHANGED svars

\* lines 89-99: the static fallback: Deno.lstat settles
Stat(r) ==
  /\ rq[r].pc = "stat"
  /\ LET q == rq[r] IN
       \/ \E m \in Mtimes :
            rq' = [rq EXCEPT ![r] =
                     IF ImsMatches(q.ims, ToUTCString(m))
                     THEN Finish([q EXCEPT !.mt = StatOf(TRUE, m)],
                                 Response("fetch", 304, "", <<>>, NoHeaders))
                     ELSE [q EXCEPT !.mt = StatOf(TRUE, m),
                                    !.headers.lastModified = Append(@, ToUTCString(m)),
                                    !.headers.cacheControl = Append(@, MustRevalidate),
                                    !.pc = "rewrite"]]
       \/ rq' = [rq EXCEPT ![r].mt = StatOf(FALSE, 0),
                           ![r].headers.cacheControl = Append(@, MustRevalidate),
                           ![r].pc = "rewrite"]
       \/ \E e \in Errors : rq' = [rq EXCEPT ![r] = Caught(q, "stat", e)]
  /\ UNCHANGED <<lolHtmlReady, initDone, opts, traffic>>
  /\ UNCHANGED svars

\* lines 101-164: the handlers are registered, the document is rewritten and
\* the Response is built
RewriteDoc(r) ==
  /\ rq[r].pc = "rewrite"
  /\ LET q == rq[r] IN
       \/ rq' = [rq EXCEPT ![r] =
                   Finish([q EXCEPT !.rewritten = TRUE],
                          Response("fetch", 200, "", Rewrite(opts, q), q.headers))]
       \/ \E e \in Errors : rq' = [rq EXCEPT ![r] = Caught(q, "rewrite", e)]
  /\ UNCHANGED <<lolHtmlReady, initDone, opts, traffic>>
  /\ UNCHANGED svars

----------------------------------------------------------------------------
(* Specifications *)

SessionInitState ==
  /\ now = 1
  /\ ticks = 0
  /\ storage = [sid \in Sids |-> NoRecord]
  /\ sess \in [SessionObjs -> {NewSession(id, ma) : id \in SessionIds, ma \in MaxAgeOptions}]
  /\ lastSet = [sid \in Sids |-> NoWrite]
  /\ ev = NoEvent
  /\ lolHtmlReady = FALSE
  /\ initDone = 0
  /\ opts = QuietOptions
  /\ traffic = AnyTraffic
  /\ rq = [r \in Reqs |-> OffRequest]

SessionNext ==
  \/ \E s \in SessionObjs : Construct(s)
  \/ \E s \in SessionObjs : SessionInit(s)
  \/ \E s \in SessionObjs : SessionInitResume(s)
  \/ \E s \in SessionObjs : SessionUpdate(s)
  \/ \E s \in SessionObjs : SessionUpdateResume(s)
  \/ \E s \in SessionObjs : SessionEnd(s)
  \/ \E s \in SessionObjs : SessionEndResume(s)
  \/ Tick

SessionSpec == SessionInitState /\ [][SessionNext]_vars

\* the session object whose whole life the lifecycle runs follow; the other
\* objects only write, as another request of the same client does
Followed == {"x"}

\* sessions whose callers also redirect and whose backend's set may fail
LifecycleNext ==
  \/ \E s \in Followed : Construct(s)
  \/ \E s \in Followed : SessionInit(s)
  \/ \E s \in Followed : SessionInitResume(s)
  \/ \E s \in SessionObjs : SessionUpdate(s)
  \/ \E s \in SessionObjs : SessionUpdateResume(s)
  \/ \E s \in Followed : SessionUpdateFail(s)
  \/ \E s \in Followed : SessionUpdateFailResume(s)
  \/ \E s \in Followed : SessionEnd(s)
  \/ \E s \in Followed : SessionEndResume(s)
  \/ \E s \in Followed : SessionRedirect(s)
  \/ Tick

LifecycleSpec == SessionInitState /\ [][LifecycleNext]_vars

\* MemorySessionStorage on its own, driven through the SessionStorage interface
StorageNext ==
  \/ \E sid \in Sids : StorageGet(sid)
  \/ \E sid \in Sids : StorageSet(sid)
  \/ \E sid \in Sids : StorageDelete(sid)
  \/ Tick

StorageSpec == SessionInitState /\ [][StorageNext]_vars


\* the RenderOptions the server is started with
OptionSets ==
  [indexHtml : Documents, routes : RouteTables, isDev : BOOLEAN, ssr : BOOLEAN]

\* one request at a time, any options
Init ==
  /\ now = 1
  /\ ticks = 0
  /\ storage = [sid \in Sids |-> NoRecord]
  /\ sess = [s \in SessionObjs |-> NewSession("s1", <<>>)]
  /\ lastSet = [sid \in Sids |-> NoWrite]
  /\ ev = NoEvent
  /\ lolHtmlReady = FALSE
  /\ initDone = 0
  /\ opts \in OptionSets
  /\ traffic = AnyTraffic
  /\ rq = [r \in Reqs |-> IF r = "r1" THEN IdleRequest ELSE OffRequest]

Next ==
  \/ \E r \in Reqs : Receive(r)
  \/ \E r \in Reqs : FetchBegin(r)
  \/ \E r \in Reqs : InitSettle(r)
  \/ \E r \in Reqs : Setup(r)
  \/ \E r \in Reqs : MatchBegin(r)
  \/ \E r \in Reqs : LoadSettle(r)
  \/ \E r \in Reqs : AllSettle(r)
  \/ \E r \in Reqs : GetSettle(r)
  \/ \E r \in Reqs : JsonSettle(r)
  \/ \E r \in Reqs : MatchSettle(r)
  \/ \E r \in Reqs : Ssr(r)
  \/ \E r \in Reqs : Stat(r)
  \/ \E r \in Reqs : RewriteDoc(r)

Spec == Init /\ [][Next]_vars

\* the options of the concurrent runs: one route with get and all
ConcurrentOptionSets ==
  [indexHtml : Documents, routes : {<<RouteAdmin>>}, isDev : {FALSE},
   ssr : BOOLEAN]

\* every request of Reqs is served, concurrently
ConcurrentInit ==
  /\ now = 1
  /\ ticks = 0
  /\ storage = [sid \in Sids |-> NoRecord]
  /\ sess = [s \in SessionObjs |-> NewSession("s1", <<>>)]
  /\ lastSet = [sid \in Sids |-> NoWrite]
  /\ ev = NoEvent
  /\ lolHtmlReady = FALSE
  /\ initDone = 0
  /\ opts \in ConcurrentOptionSets
  /\ traffic = [paths |-> {<<"admin">>}, headers |-> {NoIms, [present |-> TRUE, utc |-> 5]}]
  /\ rq = [r \in Reqs |-> IdleRequest]

ConcurrentSpec == ConcurrentInit /\ [][Next]_vars

----------------------------------------------------------------------------
(* Properties of the session store and of Session *)

\* a record is readable at t: it never expires, or t is not later than its expiry
Unexpired(rec, t) == rec.expires <= 0 \/ t <= rec.expires

\* the write of an update(payload) that has completed stands under sid
CompletedWrite(sid) == lastSet[sid].valid /\ lastSet[sid].done

\* C3 (session round-trip): when init() is called on a session object whose id
\* holds the standing write of a completed update(payload), and the record has
\* not expired, the storage read resolves to payload, and when init() returns
\* the object's cached payload is that value.
C3_SessionRoundTrip ==
  [][\A s \in SessionObjs :
       /\ ( /\ ev'.op = "init" /\ ev'.who = s
            /\ CompletedWrite(sess[s].id)
            /\ Unexpired(storage[sess[s].id], now) )
          => /\ ev'.val = lastSet[sess[s].id].payload
             /\ sess'[s].pending = lastSet[sess[s].id].payload
       /\ (ev'.op = "init-done" /\ ev'.who = s)
          => sess'[s].cache = sess[s].pending
    ]_vars

\* C3 witness: init() on an object other than the writer has just read the
\* payload {a} that a completed update persisted
C3_Witness ==
  /\ ev.op = "init"
  /\ CompletedWrite("s1")
  /\ lastSet["s1"].writer # ev.who
  /\ lastSet["s1"].payload = ObjA
  /\ ev.val = ObjA

\* C4 (expiry enforcement): a get(sid) issued later than a positive expiresAt
\* returns absent and removes the record; a get(sid) on a record that is not
\* expired (expiresAt <= 0 included) returns its payload and leaves the record.
C4_ExpiryEnforcement ==
  [][\A sid \in Sids :
       (ev'.op = "get" /\ ev'.who = sid /\ storage[sid].present) =>
         /\ (storage[sid].expires > 0 /\ now > storage[sid].expires)
            => (ev'.val = Undefined /\ ~storage'[sid].present)
         /\ ~(storage[sid].expires > 0 /\ now > storage[sid].expires)
            => (ev'.val = storage[sid].data /\ storage'[sid] = storage[sid])
    ]_vars

\* C4 witness: a get found a record holding a payload, returned absent and left
\* no record: the record had expired
C4_Witness ==
  /\ ev.op = "get"
  /\ ev.arg \in Payloads
  /\ ev.val = Undefined
  /\ ~storage[ev.who].present

\* C5 (update validation): update called with a value that is neither an
\* object nor a function (null is no object, though typeof reports "object")
\* is rejected, and the step issues no storage operation: the stored records
\* and the session object are as before.
C5_UpdateValidation ==
  [][\A s \in SessionObjs :
       ( /\ ev'.op \in {"update", "update-rejected"} /\ ev'.who = s
         /\ ev'.arg.type \notin {"object", "function"} )
       => /\ ev'.op = "update-rejected"
          /\ storage' = storage
          /\ sess'[s] = sess[s]
    ]_vars

----------------------------------------------------------------------------
(* Properties of the render service *)

\* the positions of the route table whose pattern matches the request path
MatchingIndices(q) ==
  {i \in 1..Len(opts.routes) :
     PatternMatches(opts.routes[i].pattern, CleanPath(q.path))}

\* C1 (match exclusivity): when exactly one pattern of the table, at position
\* k, matches the request path, no loader other than that of route k is ever
\* invoked, and the context matchRoute returns carries route k's filename.
C1_MatchExclusivity ==
  \A r \in Reqs : \A k \in 1..Len(opts.routes) :
    MatchingIndices(rq[r]) = {k} =>
      /\ rq[r].loads \subseteq {k}
      /\ (opts.ssr /\ rq[r].pc = "ssr") =>
           rq[r].ctx.filename = opts.routes[k].filename

\* the initWasm calls in progress
InitInFlight == Cardinality({r \in Reqs : rq[r].pc = "initWait"})

\* C2 (initialization at most once): no initWasm call is started while
\* another is in progress or has completed: the calls in progress and the
\* completed ones number at most one.
C2_InitAtMostOnce == InitInFlight + initDone <= 1

\* C6 (collective pre-fetch): once the matched route's module is loaded and
\* its data-loader object exposes an `all` function, with or without `get`,
\* `all` has been invoked; and a Response returned by `all` is what fetch
\* returns.
C6_AllInvoked ==
  \A r \in Reqs :
    LET q == rq[r]
        k == MatchedIndex(opts.routes, CleanPath(q.path))
    IN /\ ( /\ q.ctx.hasModule
            /\ k # 0
            /\ opts.routes[k].data.plain
            /\ opts.routes[k].data.all )
          => \E i \in 1..Len(q.calls) : q.calls[i] = "all"
       /\ (q.lres.by = "all" /\ q.pc = "done") => q.out = Returned(q.lres)

\* C7 (deliberate loader responses are final): once `all` has returned a
\* Response, or `get` a Response whose status is not 200, nothing is left to
\* fetch but to return: when it has returned, it returned that very Response;
\* the SSR callback is not invoked, the document is not rewritten and nothing
\* is raised.
C7_LoaderResponseFinal ==
  \A r \in Reqs :
    LET q == rq[r] IN
    (q.lres.by = "all" \/ (q.lres.by = "get" /\ q.lres.status # 200)) =>
      /\ q.pc \in {"settled", "done"}
      /\ q.pc = "done" => q.out = Returned(q.lres)
      /\ q.pc = "settled" => q.out = NoOutcome
      /\ ~q.ssrCalled
      /\ ~q.rewritten
      /\ q.threwAt = ""

\* C7 witness: get returned a 404 and fetch returned it
C7_Witness ==
  \E r \in Reqs :
    /\ rq[r].pc = "done"
    /\ rq[r].lres.by = "get"
    /\ rq[r].lres.status = 404
    /\ rq[r].out.resp = rq[r].lres

\* the JSON payload get returned: directly, or as the body of a 200 Response
GetReturnedPayload(q) ==
  \/ q.gdirect /\ q.gval # Undefined
  \/ q.lres.by = "get" /\ q.lres.status = 200 /\ JsonParses(q.lres.body)

PayloadOfGet(q) == IF q.gdirect THEN q.gval ELSE JsonParse(q.lres.body)

\* C8 (end-to-end data embedding): for a base document with both markers,
\* when get returned a JSON payload (directly or as a 200 Response), the
\* loader declares no cacheTtl and the SSR callback returned markup, the
\* response has status 200, its body holds the markup and a JSON data script
\* whose content is the payload, and Cache-Control is the always-revalidate
\* value.
C8_DataEmbedded ==
  \A r \in Reqs :
    LET q == rq[r] IN
    ( /\ q.pc = "done" /\ q.threwAt = "" /\ q.withSSR
      /\ opts.indexHtml = DocFull
      /\ GetReturnedPayload(q)
      /\ q.ctx.dataExpires = Undefined )
    => /\ q.out.resp.status = 200
       /\ \E i \in 1..Len(q.out.resp.doc) :
            /\ q.out.resp.doc[i].tag = "#html"
            /\ q.out.resp.doc[i].text = q.markup
       /\ \E i \in 1..Len(q.out.resp.doc) :
            /\ q.out.resp.doc[i].role = "aleph-ssr-data"
            /\ JsonParse(q.out.resp.doc[i].text) = PayloadOfGet(q)
       /\ q.out.resp.headers.cacheControl = <<MustRevalidate>>

\* C9 (exceptions become 500 responses): whichever step of fetch raised, when
\* fetch has ended it has returned a Response of status 500 whose body is
\* "Internal Server Error" in production and the first line of the error
\* message in development.
C9_ExceptionsBecome500 ==
  \A r \in Reqs :
    LET q == rq[r] IN
    (q.threwAt # "" /\ q.pc = "done") =>
      /\ q.out.kind = "response"
      /\ q.out.resp.status = 500
      /\ q.out.resp.body =
           IF opts.isDev THEN FirstLine(q.raised) ELSE "Internal Server Error"

\* a fetch call that took the static fallback and raised nowhere
EndedOnStaticPath(q) ==
  q.pc = "done" /\ q.mt.called /\ ~q.withSSR /\ q.threwAt = ""

\* the If-Modified-Since header is the text of the file's modification time
HeaderIsMtime(q) ==
  q.mt.has /\ q.ims.present /\ q.ims.utc = ToUTCString(q.mt.ms)

NotModified == Response("fetch", 304, "", <<>>, NoHeaders)

\* C10 as stated: on the static path a request whose header equals the
\* modification timestamp gets the bare 304, and every other request gets the
\* rewritten document with Last-Modified and the always-revalidate
\* Cache-Control; no request served with SSR markup gets a 304.
C10_AsStated ==
  \A r \in Reqs :
    LET q == rq[r] IN
    /\ EndedOnStaticPath(q) =>
         IF HeaderIsMtime(q)
         THEN q.out = Returned(NotModified)
         ELSE /\ q.out.resp.status = 200 /\ q.rewritten
              /\ Len(q.out.resp.headers.lastModified) = 1
              /\ q.out.resp.headers.cacheControl = <<MustRevalidate>>
    /\ (q.pc = "done" /\ q.withSSR) => q.out.resp.status # 304

\* C10 as amended: as stated, except that the rewritten document carries
\* Last-Modified only when lstat reports a modification time; when it reports
\* none, no request gets a 304 and the response has no Last-Modified.
C10_ConditionalGet ==
  \A r \in Reqs :
    LET q == rq[r] IN
    /\ EndedOnStaticPath(q) =>
         IF HeaderIsMtime(q)
         THEN q.out = Returned(NotModified)
         ELSE /\ q.out.resp.status = 200 /\ q.rewritten
              /\ q.out.resp.headers.lastModified =
                   (IF q.mt.has THEN <<ToUTCString(q.mt.ms)>> ELSE <<>>)
              /\ q.out.resp.headers.cacheControl = <<MustRevalidate>>
              /\ q.out.resp.headers.contentType = <<"text/html; charset=utf-8">>
    /\ (q.pc = "done" /\ q.withSSR) => q.out.resp.status # 304

\* C10 witness: the file's time 5.4 s and the header's date 5 s have the same
\* text, and the request was answered 304 after the SSR callback declined
C10_Witness ==
  \E r \in Reqs :
    /\ rq[r].pc = "done"
    /\ rq[r].ssrCalled
    /\ rq[r].mt = StatOf(TRUE, 5400)
    /\ rq[r].ims.utc = 5
    /\ rq[r].out = Returned(NotModified)

\* a fetch call that returned the rewritten document
ServedDocument(q) ==
  q.pc = "done" /\ q.threwAt = "" /\ q.rewritten /\ q.out.kind = "response"

\* C11 (Cache-Control rule): a rewritten-document response carries exactly
\* one Cache-Control value: on the SSR path max-age=<duration> when the
\* context has a numeric dataExpires and the always-revalidate value
\* otherwise; on the static path always the always-revalidate value.
C11_CacheControlRule ==
  \A r \in Reqs :
    LET q == rq[r] IN
    ServedDocument(q) =>
      /\ Len(q.out.resp.headers.cacheControl) = 1
      /\ q.out.resp.headers.cacheControl[1] =
           IF q.withSSR /\ q.ctx.dataExpires.type = "number"
           THEN MaxAge(q.ctx.dataExpires.val)
           ELSE MustRevalidate

\* C11 witness: an SSR response for the route that declares cacheTtl 60
C11_Witness ==
  \E r \in Reqs :
    /\ ServedDocument(rq[r])
    /\ rq[r].withSSR
    /\ rq[r].ctx.dataExpires = [type |-> "number", val |-> "60"]
    /\ rq[r].out.resp.headers.cacheControl = <<MaxAge("60")>>

\* what a token shows: the element, which inserted content it is, its text
Shape(t) == <<t.tag, t.role, t.text>>

\* the SSR content of a document: markers and what stands in their place
SsrContent(doc) ==
  SelectSeq(doc, LAMBDA t : \/ t.tag \in {"ssr-head", "ssr-body", "#html"}
                            \/ t.role \in {"aleph-ssr-data", "bootstrap"})

\* what C12 puts in place of the head marker: the fragments, the data script
\* when the context carries a payload, the bootstrap script when it carries a
\* filename
ClaimedHead(q) ==
  [i \in 1..Len(q.head) |-> <<"#html", "", q.head[i]>>]
  \o (IF q.ctx.data # Undefined
      THEN <<(<<"script", "aleph-ssr-data", JsonStringify(q.ctx.data)>>)>>
      ELSE <<>>)
  \o (IF q.ctx.filename # ""
      THEN <<(<<"script", "bootstrap", q.ctx.filename>>)>>
      ELSE <<>>)

\* the SSR content C12 claims for the markers of a base document, in order
RECURSIVE ClaimedSsrContent(_, _, _)
ClaimedSsrContent(doc, i, q) ==
  IF i > Len(doc) THEN <<>>
  ELSE (CASE doc[i].tag = "ssr-head" -> ClaimedHead(q)
          [] doc[i].tag = "ssr-body" -> <<(<<"#html", "", q.markup>>)>>
          [] OTHER -> <<>>)
       \o ClaimedSsrContent(doc, i + 1, q)

\* the elements of the base document in a document, handler insertions and
\* SSR content left out
BaseElements(doc) ==
  SelectSeq(doc, LAMBDA t : t.role = "" /\ t.tag \notin {"ssr-head", "ssr-body", "#html"})

\* the SSR content of out stands where the markers of doc stood: every piece
\* of it has as many base elements before it as some marker has
SsrContentInPlace(doc, out) ==
  \A k \in 1..Len(out) :
    (SsrContent(<<out[k]>>) # <<>>) =>
      Len(BaseElements(SubSeq(out, 1, k))) \in
        {Len(BaseElements(SubSeq(doc, 1, m))) :
           m \in {n \in 1..Len(doc) : doc[n].tag \in {"ssr-head", "ssr-body"}}}

\* C12 (rewrite substitution on the SSR path): in a document served with SSR
\* markup no marker element remains; in the place of every body marker
\* stands the markup, and in the place of the head marker stand the head
\* fragments in order, then the data script exactly when the context carries
\* a data payload, then the bootstrap script exactly when it carries a
\* filename.
C12_RewriteSubstitution ==
  \A r \in Reqs :
    LET q == rq[r] IN
    (ServedDocument(q) /\ q.withSSR) =>
      /\ [i \in 1..Len(SsrContent(q.out.resp.doc)) |->
            Shape(SsrContent(q.out.resp.doc)[i])]
           = ClaimedSsrContent(opts.indexHtml, 1, q)
      /\ SsrContentInPlace(opts.indexHtml, q.out.resp.doc)

\* the positions of a data-loader function in the calls of a run
CallsOf(q, f) == {i \in 1..Len(q.calls) : q.calls[i] = f}

\* C13 (loader calls are sequential): in every matchRoute run, get is not
\* invoked while the all call is pending, an all call precedes the get call
\* of the same run, and get is not invoked in a run where all returned a
\* Response.
C13_LoadersSequential ==
  \A r \in Reqs :
    LET q == rq[r] IN
    /\ q.pc = "all" => CallsOf(q, "get") = {}
    /\ \A i \in CallsOf(q, "all"), j \in CallsOf(q, "get") : i < j
    /\ q.lres.by = "all" => CallsOf(q, "get") = {}
    /\ Cardinality(CallsOf(q, "all")) <= 1
    /\ Cardinality(CallsOf(q, "get")) <= 1

\* C13 witness: while the other request waits in its all call, a run has
\* called all, then get, and get has answered
C13_Witness ==
  \E r, o \in Reqs :
    /\ r # o
    /\ rq[o].pc = "all"
    /\ rq[r].calls = <<"all", "get">>
    /\ rq[r].lres.by = "get"

\* C14 (static-fallback rewrite removes markers): a document served on the
\* static path, without an SSR callback or with one that returned no markup,
\* holds neither marker element and nothing in their place.
C14_StaticRemovesMarkers ==
  \A r \in Reqs :
    LET q == rq[r] IN
    (ServedDocument(q) /\ ~q.withSSR) => SsrContent(q.out.resp.doc) = <<>>

\* the positions of the module-type scripts of the base document in a document
ModuleScripts(doc) ==
  {i \in 1..Len(doc) :
     doc[i].tag = "script" /\ doc[i].role = "" /\ doc[i].type = "module"}

\* the positions of the no-module fallback scripts in a document
NoModuleScripts(doc) == {i \in 1..Len(doc) : doc[i].role = "nomodule"}

\* the least member of a non-empty set of positions
First(S) == CHOOSE i \in S : \A j \in S : i <= j

\* C15 (no-module fallback fires once per render): every served document,
\* whatever other renders the process runs before or meanwhile, holds exactly
\* one no-module fallback script when the base document has a module-type
\* script, immediately after the first such script, and none otherwise.
C15_NoModuleOncePerRender ==
  \A r \in Reqs :
    LET q == rq[r]
        out == q.out.resp.doc
    IN ServedDocument(q) =>
         IF ModuleScripts(opts.indexHtml) = {}
         THEN NoModuleScripts(out) = {}
         ELSE NoModuleScripts(out) = {First(ModuleScripts(out)) + 1}

\* C15 witness: two renders of a document with two module-type scripts, both
\* served, each with its fallback script
C15_Witness ==
  /\ Cardinality(ModuleScripts(opts.indexHtml)) = 2
  /\ \A r \in Reqs :
       /\ ServedDocument(rq[r])
       /\ Cardinality(NoModuleScripts(rq[r].out.resp.doc)) = 1

\* the positions of inserted content of one kind in a document
Inserted(doc, role) == {i \in 1..Len(doc) : doc[i].role = role}

\* the positions of the base document's elements of one kind in a document
Elements(doc, tag) == {i \in 1..Len(doc) : doc[i].role = "" /\ doc[i].tag = tag}

\* C16 (route-table script appended once): a served document whose base
\* document has a head and a body holds, with a non-empty route table,
\* exactly one route-table script, inside the first of the two elements, and
\* none with an empty table; in development it holds exactly one live-reload
\* decline script, and none in production.
C16_RouteTableOnce ==
  \A r \in Reqs :
    LET q == rq[r]
        out == q.out.resp.doc
    IN ( /\ ServedDocument(q)
         /\ Elements(opts.indexHtml, "head") # {}
         /\ Elements(opts.indexHtml, "body") # {} )
       => /\ Cardinality(Inserted(out, "aleph-routes")) =
               (IF Len(opts.routes) > 0 THEN 1 ELSE 0)
          /\ Cardinality(Inserted(out, "hmr-decline")) =
               (IF opts.isDev THEN 1 ELSE 0)
          /\ \A i \in Inserted(out, "aleph-routes") \cup Inserted(out, "hmr-decline") :
               i < First(Elements(out, "body"))
          /\ \A i \in Inserted(out, "aleph-routes") :
               out[i].items =
                 [k \in 1..Len(opts.routes) |->
                    [filename |-> opts.routes[k].filename,
                     pattern |-> opts.routes[k].pattern]]

\* C16 witness: a development render of the full document with two routes
C16_Witness ==
  \E r \in Reqs :
    /\ ServedDocument(rq[r])
    /\ opts.indexHtml = DocFull /\ opts.isDev /\ Len(opts.routes) = 2
    /\ Cardinality(Inserted(rq[r].out.resp.doc, "aleph-routes")) = 1
    /\ Cardinality(Inserted(rq[r].out.resp.doc, "hmr-decline")) = 1

\* C17 (effect of end() on storage): end() deletes the record of the
\* session id exactly when the cached payload was absent when it was called
\* and otherwise leaves the stored records unchanged; when end() has
\* completed the cache is absent; and a record disappears only in a step of
\* end() or in a read that finds it expired.
C17_EndEffect ==
  [][/\ \A s \in SessionObjs :
          /\ (ev'.who = s /\ ev'.op \in {"end", "end-delete"}) =>
                storage' = (IF sess[s].cache = Undefined
                            THEN MemDelete(storage, sess[s].id)
                            ELSE storage)
          /\ (ev'.who = s /\ ev'.op \in {"end", "end-done"}) =>
                sess'[s].cache = Undefined
     /\ \A sid \in Sids :
          (storage[sid].present /\ ~storage'[sid].present) =>
            \/ ev'.op = "end-delete"
            \/ ev'.op = "init" /\ MemExpired(storage[sid], now)
    ]_vars

\* options.maxAge in seconds, 1800 when the option is absent
MaxAgeSeconds(o) == IF o.maxAge = <<>> THEN 1800 ELSE o.maxAge[1]

\* the payload update(arg) computes from the cache
NextPayload(arg, cache) ==
  IF arg.type = "function" THEN ApplyFn(arg, cache) ELSE arg

\* C18 (effect of update()): the step of update that passes validation
\* writes the next payload, the argument or the function applied to the
\* cached payload, under the session id with expiry now + 1000 * maxAge
\* (1800 s by default) and leaves the cache as it was; the cache takes the
\* payload when the write has completed; when the write fails, neither the
\* call nor its rejection changes the cache or the stored records.
C18_UpdateEffect ==
  [][\A s \in SessionObjs :
       /\ (ev'.op = "update" /\ ev'.who = s) =>
            /\ storage' =
                 [storage EXCEPT ![sess[s].id] =
                    [present |-> TRUE,
                     data |-> NextPayload(ev'.arg, sess[s].cache),
                     expires |-> now + 1000 * MaxAgeSeconds(sess[s])]]
            /\ sess'[s].cache = sess[s].cache
            /\ sess'[s].pending = NextPayload(ev'.arg, sess[s].cache)
       /\ (ev'.op = "update-done" /\ ev'.who = s) =>
            /\ sess'[s].cache = sess[s].pending
            /\ storage' = storage
       /\ (ev'.op \in {"update-failing", "update-failed"} /\ ev'.who = s) =>
            /\ sess'[s].cache = sess[s].cache
            /\ storage' = storage
    ]_vars

\* C18 witness: an update with a function has completed on a cached {a}: the
\* record and the cache hold the function's result, with the default expiry
C18_Witness ==
  /\ ev.op = "update-done"
  /\ sess[ev.who].maxAge = <<>>
  /\ sess[ev.who].cache = ObjB
  /\ storage["s1"] = [present |-> TRUE, data |-> ObjB, expires |-> 1801001]

\* C18 witness of the failing write: update has rejected after another
\* object wrote {b} meanwhile, and the cache still holds {a}
C18_FailedWriteReached ==
  /\ ev.op = "update-failed"
  /\ sess[ev.who].cache = ObjA
  /\ storage["s1"].data = ObjB

\* C19 (redirect): redirect(target) returns a 302 Response whose Location is
\* the target and whose cookie carries the session id, with expiry
\* now + 1000 * maxAge when the cache holds a payload and the epoch when it is
\* absent: the epoch right after end(), a future time right after a completed
\* update(); redirect changes neither the cache nor the stored records.
C19_Redirect ==
  [][\A s \in SessionObjs :
       (ev'.op = "redirect" /\ ev'.who = s) =>
         /\ ev'.val.status = 302
         /\ ev'.val.location = ev'.arg.val
         /\ ev'.val.setCookie.value = sess[s].id
         /\ ev'.val.setCookie.expires =
              (IF sess[s].cache = Undefined THEN 0
               ELSE now + 1000 * MaxAgeSeconds(sess[s]))
         /\ (ev.who = s /\ ev.op \in {"end", "end-done"}) =>
              ev'.val.setCookie.expires = 0
         /\ (ev.who = s /\ ev.op = "update-done") =>
              ev'.val.setCookie.expires > now
         /\ sess' = sess
         /\ storage' = storage
    ]_vars

\* C19 witness: a redirect to /login with a cached payload, after time passed
C19_Witness ==
  /\ ev.op = "redirect"
  /\ ev.arg.val = "/login"
  /\ now = 2001
  /\ sess[ev.who].cache = ObjA
  /\ sess[ev.who].maxAge = <<1>>
  /\ ev.val.setCookie.expires = 3001

\* C20 (no-match fallthrough): for a request whose path matches no pattern
\* of the route table, the empty table included, no module loader and no
\* data-loader function is invoked, and the context matchRoute returns
\* carries the request's URL and nothing else.
C20_NoMatchFallthrough ==
  \A r \in Reqs :
    LET q == rq[r] IN
    (q.pc \notin {"idle", "off"} /\ MatchingIndices(q) = {}) =>
      /\ q.loads = {}
      /\ q.calls = <<>>
      /\ q.lres = NoResponse /\ ~q.gdirect
      /\ q.ctx = [url |-> [path |-> q.path, params |-> <<>>],
                  hasModule |-> FALSE, filename |-> "", data |-> Undefined,
                  dataExpires |-> Undefined]
      /\ q.pc \notin {"load", "all", "get", "json", "settled"}

\* C20 witness: /missing with a table of two routes: matchRoute has returned
\* and the SSR callback has run on the bare context
C20_Witness ==
  \E r \in Reqs :
    /\ rq[r].path = <<"missing">>
    /\ Len(opts.routes) = 2
    /\ rq[r].ssrCalled
    /\ rq[r].ctx = Context(Url(<<"missing">>))

====
